---- MODULE Spec2Model ----
(***************************************************************************)
(* Model of backend/solver.py (class PDESolver) as driven by the /solve    *)
(* handler of backend/app.py.                                              *)
(*                                                                         *)
(* Real numbers of the domain (x_min, x_max, y_min, y_max, t_max, dt) are  *)
(* fixed-point integers in thousandths; values computed by np.linspace are *)
(* exact rationals <<numerator, denominator>> in the same unit.            *)
(* An equation string is the sequence of signed terms the user typed, an   *)
(* initial-condition string is the set of names it mentions; parse_expr,   *)
(* sp.solve and sp.lambdify are computed on these.                         *)
(* The trained network is a nondeterministic choice (training starts from  *)
(* unseeded random weights); prediction is a function of the chosen        *)
(* network and the query point.                                            *)
(***************************************************************************)
EXTENDS Integers, Sequences, FiniteSets

(* ----------------------------- bounds --------------------------------- *)

\* nx and ny range over 1..MaxN
MaxN == 3

\* the trained networks a run can end with are 0..MaxTheta
MaxTheta == 1

(* --------------------------- arithmetic ------------------------------- *)

Abs(n) == IF n < 0 THEN -n ELSE n

RECURSIVE GCD(_, _)
GCD(a, b) == IF b = 0 THEN a ELSE GCD(b, a % b)

\* the rational n/d in lowest terms with a positive denominator (d # 0)
Rat(n, d) ==
    LET g == GCD(Abs(n), Abs(d))
        s == IF d < 0 THEN -1 ELSE 1
    IN  <<(s * n) \div g, (s * d) \div g>>

RatAdd(a, b) == Rat(a[1] * b[2] + b[1] * a[2], a[2] * b[2])

RatSub(a, b) == Rat(a[1] * b[2] - b[1] * a[2], a[2] * b[2])

RatMulInt(k, a) == Rat(k * a[1], a[2])

(* ------------------------ sympy: equations ---------------------------- *)

\* the symbols of line 32, and "1" for a constant term
Symbols == {"x", "y", "t", "u", "ut", "utt", "ux", "uy", "uxx", "uyy"}

Term(c, s) == [c |-> c, s |-> s]

\* Equation strings. terms: the signed terms as typed; fn: the function
\* wrapped around their sum ("id" for none); syntax_ok: whether the text is
\* well-formed Python/sympy syntax.
EqHeat == [str |-> "ut - uxx - uyy", syntax_ok |-> TRUE, fn |-> "id",
           terms |-> <<Term(1, "ut"), Term(-1, "uxx"), Term(-1, "uyy")>>]

EqHeatX == [str |-> "ut - 2*uxx", syntax_ok |-> TRUE, fn |-> "id",
            terms |-> <<Term(1, "ut"), Term(-2, "uxx")>>]

EqHeatScaled == [str |-> "2*ut - 2*uxx - 2*uyy", syntax_ok |-> TRUE, fn |-> "id",
                 terms |-> <<Term(2, "ut"), Term(-2, "uxx"), Term(-2, "uyy")>>]

EqWave == [str |-> "utt - uxx - uyy", syntax_ok |-> TRUE, fn |-> "id",
           terms |-> <<Term(1, "utt"), Term(-1, "uxx"), Term(-1, "uyy")>>]

EqDamped == [str |-> "utt + ut - uxx - uyy", syntax_ok |-> TRUE, fn |-> "id",
             terms |-> <<Term(1, "utt"), Term(1, "ut"), Term(-1, "uxx"), Term(-1, "uyy")>>]

\* the equation of test_solver.py line 19 and the default of app.py line 23
EqLaplace == [str |-> "uxx + uyy", syntax_ok |-> TRUE, fn |-> "id",
              terms |-> <<Term(1, "uxx"), Term(1, "uyy")>>]

EqCancel == [str |-> "ut - ut + uxx", syntax_ok |-> TRUE, fn |-> "id",
             terms |-> <<Term(1, "ut"), Term(-1, "ut"), Term(1, "uxx")>>]

EqExp == [str |-> "exp(utt - uxx)", syntax_ok |-> TRUE, fn |-> "exp",
          terms |-> <<Term(1, "utt"), Term(-1, "uxx")>>]

EqSyntax == [str |-> "ut - (uxx", syntax_ok |-> FALSE, fn |-> "id",
             terms |-> <<Term(1, "ut"), Term(-1, "uxx")>>]

Equations == {EqHeat, EqHeatX, EqHeatScaled, EqWave, EqDamped,
              EqLaplace, EqCancel, EqExp, EqSyntax}

RECURSIVE SumCoef(_, _)
SumCoef(terms, s) ==
    IF terms = <<>> THEN 0
    ELSE (IF Head(terms).s = s THEN Head(terms).c ELSE 0) + SumCoef(Tail(terms), s)

\* parse_expr: sympy collects like terms while it builds the expression, so
\* a symbol whose terms cancel is absent from the result.  <<>> stands for
\* the exception parse_expr raises on malformed text.
parse_expr(eq) ==
    IF ~eq.syntax_ok THEN <<>>
    ELSE <<[fn |-> eq.fn,
            coef |-> [s \in Symbols \cup {"1"} |-> SumCoef(eq.terms, s)]]>>

\* expr.free_symbols
free_symbols(expr) == {s \in Symbols : expr.coef[s] # 0}

RECURSIVE GCDSet(_)
GCDSet(S) ==
    IF S = {} THEN 0
    ELSE LET n == CHOOSE m \in S : TRUE IN GCD(Abs(n), GCDSet(S \ {n}))

\* sp.solve(expr, target): the list of solutions of expr = 0 for target.
\* exp(...) = 0 has none.  A linear a*target + rest = 0 has the one
\* solution -rest/a, kept as integer numerators over a common positive
\* denominator in lowest terms.
sp_solve(expr, target) ==
    IF expr.fn = "exp" THEN <<>>
    ELSE LET a    == expr.coef[target]
             sgn  == IF a < 0 THEN -1 ELSE 1
             nums == [s \in (Symbols \cup {"1"}) \ {target} |-> -sgn * expr.coef[s]]
             g    == GCD(Abs(a), GCDSet({nums[s] : s \in DOMAIN nums}))
         IN  <<[num |-> [s \in DOMAIN nums |-> nums[s] \div g], den |-> Abs(a) \div g]>>

NoError == [cls |-> "", msg |-> "", at |-> ""]

ValueError(msg, at) == [cls |-> "ValueError", msg |-> msg, at |-> at]

\* the mutant of compile_equation that tests ut before utt
compile_equation_ut_first(equation_str) ==
    LET parsed == parse_expr(equation_str) IN
    IF parsed = <<>> THEN
        [order |-> 0, rhs_sympy |-> <<>>, raised |-> ValueError("Invalid equation string", "init")]
    ELSE LET expr == parsed[1] IN
        IF "ut" \in free_symbols(expr) THEN
            LET ut_expr == sp_solve(expr, "ut") IN
            IF ut_expr = <<>> THEN
                [order |-> 1, rhs_sympy |-> <<>>, raised |-> ValueError("Invalid equation string", "init")]
            ELSE [order |-> 1, rhs_sympy |-> <<ut_expr[1]>>, raised |-> NoError]
        ELSE IF "utt" \in free_symbols(expr) THEN
            LET utt_expr == sp_solve(expr, "utt") IN
            IF utt_expr = <<>> THEN
                [order |-> 2, rhs_sympy |-> <<>>, raised |-> ValueError("Invalid equation string", "init")]
            ELSE [order |-> 2, rhs_sympy |-> <<utt_expr[1]>>, raised |-> NoError]
        ELSE [order |-> 0, rhs_sympy |-> <<>>, raised |-> ValueError("Invalid equation string", "init")]

\* PDESolver._compile_equation: the attributes it leaves on the instance
\* (order 0: never assigned) and the exception it raises.  Every exception
\* of the try block, its own ValueErrors included, is re-raised as
\* ValueError("Invalid equation string: ...").
compile_equation(equation_str) ==
    LET parsed == parse_expr(equation_str) IN
    IF parsed = <<>> THEN
        [order |-> 0, rhs_sympy |-> <<>>, raised |-> ValueError("Invalid equation string", "init")]
    ELSE LET expr == parsed[1] IN
        IF "utt" \in free_symbols(expr) THEN
            LET utt_expr == sp_solve(expr, "utt") IN
            IF utt_expr = <<>> THEN
                [order |-> 2, rhs_sympy |-> <<>>, raised |-> ValueError("Invalid equation string", "init")]
            ELSE [order |-> 2, rhs_sympy |-> <<utt_expr[1]>>, raised |-> NoError]
        ELSE IF "ut" \in free_symbols(expr) THEN
            LET ut_expr == sp_solve(expr, "ut") IN
            IF ut_expr = <<>> THEN
                [order |-> 1, rhs_sympy |-> <<>>, raised |-> ValueError("Invalid equation string", "init")]
            ELSE [order |-> 1, rhs_sympy |-> <<ut_expr[1]>>, raised |-> NoError]
        ELSE [order |-> 0, rhs_sympy |-> <<>>, raised |-> ValueError("Invalid equation string", "init")]

(* -------------------- sympy: initial conditions ----------------------- *)

\* Initial-condition strings. names: the free names of the expression.
IcSine == [str |-> "sin(x)*sin(y)", syntax_ok |-> TRUE, names |-> {"x", "y"}]

IcConst == [str |-> "1", syntax_ok |-> TRUE, names |-> {}]

IcForeign == [str |-> "z + 1", syntax_ok |-> TRUE, names |-> {"z"}]

IcSyntax == [str |-> "sin(x", syntax_ok |-> FALSE, names |-> {"x"}]

InitialConditions == {IcSine, IcConst, IcForeign, IcSyntax}

\* PDESolver._compile_ic: parse_expr, then sp.lambdify((x, y), expr, 'numpy').
\* lambdify prints the expression into the body of a function of (x, y)
\* without evaluating it, so only a parse failure raises here.
compile_ic(ic_str) ==
    IF ~ic_str.syntax_ok THEN
        [ic_func |-> <<>>, raised |-> ValueError("Invalid IC string", "init")]
    ELSE [ic_func |-> <<[args |-> {"x", "y"}, body |-> ic_str.names]>>, raised |-> NoError]

\* calling self.ic_func(x, y) on arrays: a name of the body that is not an
\* argument is unbound (NameError); a body without x and y returns the
\* Python scalar, otherwise an array
ic_call(f) ==
    IF ~(f.body \subseteq f.args) THEN "NameError"
    ELSE IF f.body = {} THEN "scalar" ELSE "array"

\* PDESolver._initial_condition: the exception it raises, "" for none.
\* Order 1 calls u0.reshape, which a Python scalar does not have.
initial_condition(f, ord) ==
    LET u0 == ic_call(f) IN
    IF u0 = "NameError" THEN "NameError"
    ELSE IF ord = 1 /\ u0 = "scalar" THEN "AttributeError"
    ELSE ""

(* ----------------------------- domains -------------------------------- *)

Domain(x_min, x_max, y_min, y_max, t_max, nx, ny, dt) ==
    [x_min |-> x_min, x_max |-> x_max, y_min |-> y_min, y_max |-> y_max,
     t_max |-> t_max, nx |-> nx, ny |-> ny, dt |-> dt]

\* (t_max, dt) pairs: 500 steps, 49 steps, dt = 0, t_max = 0
Times == {<<500, 1>>, <<49, 1>>, <<500, 0>>, <<0, 1>>}

Domains == {Domain(-1000, 2000, 0, 3142, td[1], nx, ny, td[2]) :
                td \in Times, nx \in 1..MaxN, ny \in 1..MaxN}

\* the domain of test_solver.py lines 11-17 (pi = 3.142)
TestDomain == Domain(0, 3142, 0, 3142, 500, 20, 20, 1)

\* the requests the handler is given: [equation, domain, ic]
Requests ==
    {<<e, d, i>> : e \in Equations, d \in Domains, i \in InitialConditions}
        \cup {<<EqLaplace, TestDomain, IcSine>>}

(* ------------------------- PDESolver.__init__ -------------------------- *)

\* the mutant of PDESolver_init that validates the domain first
PDESolver_init_validating(equation_str, dom, ic_str) ==
    IF dom.nx < 2 \/ dom.ny < 2 \/ dom.dt <= 0 \/ dom.t_max <= 0 THEN
        [order |-> 0, rhs_sympy |-> <<>>, ic_func |-> <<>>,
         raised |-> ValueError("Invalid domain", "init")]
    ELSE LET ce == compile_equation(equation_str) IN
        IF ce.raised # NoError THEN
            [order |-> ce.order, rhs_sympy |-> ce.rhs_sympy, ic_func |-> <<>>, raised |-> ce.raised]
        ELSE LET ci == compile_ic(ic_str) IN
            [order |-> ce.order, rhs_sympy |-> ce.rhs_sympy, ic_func |-> ci.ic_func, raised |-> ci.raised]

\* PDESolver.__init__: stores its arguments, then _compile_equation, then
\* _compile_ic.  The domain is stored and not looked at.
PDESolver_init(equation_str, dom, ic_str) ==
    LET ce == compile_equation(equation_str) IN
    IF ce.raised # NoError THEN
        [order |-> ce.order, rhs_sympy |-> ce.rhs_sympy, ic_func |-> <<>>, raised |-> ce.raised]
    ELSE LET ci == compile_ic(ic_str) IN
        [order |-> ce.order, rhs_sympy |-> ce.rhs_sympy, ic_func |-> ci.ic_func, raised |-> ci.raised]

(* ------------------------- PDESolver.solve ----------------------------- *)

\* values of the derivatives the residual is evaluated on
Samples == [u_t : {0, 1}, u_xx : {0, 1}, u_yy : {0, 1}, v : {1}, v_t : {0, 1}]

\* PDESolver._pde_residual of an instance with attributes self: the right-hand
\* side is u_xx + u_yy in both branches; self.rhs_sympy is not read.
pde_residual(self, s) ==
    IF self.order = 1 THEN
        LET rhs == s.u_xx + s.u_yy IN <<s.u_t - rhs>>
    ELSE
        LET rhs == s.u_xx + s.u_yy IN <<s.u_t - s.v, s.v_t - rhs>>

IC(func, component) == [kind |-> "IC", func |-> func, on |-> "on_initial", component |-> component]

DirichletBC(component) ==
    [kind |-> "DirichletBC", func |-> "zeros", on |-> "on_boundary", component |-> component]

\* lines 132-146
initial_conditions(ord) ==
    IF ord = 1 THEN <<IC("_initial_condition", 0)>>
    ELSE <<IC("ic_u_func", 0), IC("ic_v_func", 1)>>

\* the mutant of boundary_conditions that constrains u alone
boundary_conditions_u_only(ord) == <<DirichletBC(0)>>

\* lines 148-156
boundary_conditions(ord) ==
    IF ord = 1 THEN <<DirichletBC(0)>>
    ELSE <<DirichletBC(0), DirichletBC(1)>>

\* line 172
output_size(ord) == IF ord = 1 THEN 1 ELSE 2

\* the mutant of linspace that leaves the end point out (endpoint=False)
linspace_open(start, stop, num) ==
    [i \in 1..num |-> RatAdd(RatMulInt(i - 1, Rat(stop - start, num)), Rat(start, 1))]

\* np.linspace(start, stop, num), num >= 0, endpoint=True: div = num - 1;
\* y = arange(num) * (delta / div) + start when div > 0, arange(num) * delta
\* + start otherwise; y[-1] = stop when num > 1.
linspace(start, stop, num) ==
    LET div == num - 1 IN
    [i \in 1..num |->
        IF num > 1 /\ i = num THEN Rat(stop, 1)
        ELSE IF div > 0 THEN RatAdd(RatMulInt(i - 1, Rat(stop - start, div)), Rat(start, 1))
        ELSE RatAdd(RatMulInt(i - 1, Rat(stop - start, 1)), Rat(start, 1))]

\* np.meshgrid(x_coords, y_coords): two arrays of len(y) rows and len(x) columns
meshgrid(xs, ys) ==
    [X |-> [i \in 1..Len(ys) |-> [j \in 1..Len(xs) |-> xs[j]]],
     Y |-> [i \in 1..Len(ys) |-> [j \in 1..Len(xs) |-> ys[i]]]]

\* np.full_like(X, t_val)
full_like(M, val) == [i \in 1..Len(M) |-> [j \in 1..Len(M[i]) |-> val]]

\* ndarray.flatten(): row-major
flatten(M) ==
    IF Len(M) = 0 THEN <<>>
    ELSE LET cols == Len(M[1]) IN
         [p \in 1..(Len(M) * cols) |-> M[((p - 1) \div cols) + 1][((p - 1) % cols) + 1]]

\* the mutant of reshape that swaps the two extents
reshape_swapped(flat, rows, cols) ==
    [i \in 1..cols |-> [j \in 1..rows |-> flat[(i - 1) * rows + j]]]

\* ndarray.reshape(rows, cols) of a flat array of rows * cols values
reshape(flat, rows, cols) ==
    [i \in 1..rows |-> [j \in 1..cols |-> flat[(i - 1) * cols + j]]]

\* the trained networks a run can end with
Thetas == 0..MaxTheta

\* the output of network theta at the point pt = <<x, y, t>>: one component
\* per output unit.  Network 0 is the zero function.
net_output(theta, ord, pt) ==
    LET u == theta * (1 + ((pt[1][1] + pt[2][1] + pt[3][1]) % 3)) IN
    IF ord = 1 THEN <<u>> ELSE <<u, theta + 1>>

\* lines 196-210: the grid of the frame at time t_val
predict_frame(theta, ord, xs, ys, t_val, ny, nx) ==
    LET XY     == meshgrid(xs, ys)
        T      == full_like(XY.X, t_val)
        fx     == flatten(XY.X)
        fy     == flatten(XY.Y)
        ft     == flatten(T)
        points == [p \in 1..Len(fx) |-> <<fx[p], fy[p], ft[p]>>]
        u_pred == [p \in 1..Len(points) |-> net_output(theta, ord, points[p])[1]]
    IN  reshape(u_pred, ny, nx)

(* --------------------------- state machine ----------------------------- *)

VARIABLES
    pc,               \* position of the /solve handler: idle, constructed,
                      \* trained, predicting, done, error
    equation_str,     \* self.equation_str
    domain,           \* self.domain
    ic_str,           \* self.ic_str
    order,            \* self.order (0: not assigned)
    rhs_sympy,        \* self.rhs_sympy (<<>>: not assigned)
    ic_func,          \* self.ic_func (<<>>: not assigned)
    raised,           \* the exception that ended the request, NoError for none
    data,             \* the TimePDE of solve(): residual and constraints
    model,            \* the trained network (-1: none)
    x_coords,         \* locals of solve()
    y_coords,
    t_values,
    frames,
    result,           \* <<the dict solve() returns>>, <<>> before it returns
    hist              \* <<the previous successful request>>: inputs, instance, result

vars == <<pc, equation_str, domain, ic_str, order, rhs_sympy, ic_func, raised,
          data, model, x_coords, y_coords, t_values, frames, result, hist>>

NoEquation == [str |-> "", syntax_ok |-> FALSE, fn |-> "id", terms |-> <<>>]

NoDomain == Domain(0, 0, 0, 0, 0, 0, 0, 0)

NoIc == [str |-> "", syntax_ok |-> FALSE, names |-> {}]

NoData == [pde |-> <<>>, constraints |-> <<>>]

Idle ==
    /\ pc = "idle"
    /\ equation_str = NoEquation
    /\ domain = NoDomain
    /\ ic_str = NoIc
    /\ order = 0
    /\ rhs_sympy = <<>>
    /\ ic_func = <<>>
    /\ raised = NoError
    /\ data = NoData
    /\ model = -1
    /\ x_coords = <<>>
    /\ y_coords = <<>>
    /\ t_values = <<>>
    /\ frames = <<>>
    /\ result = <<>>

Init == Idle /\ hist = <<>>

solver_locals == <<data, model, x_coords, y_coords, t_values, frames, result>>

self_fields == <<equation_str, domain, ic_str, order, rhs_sympy, ic_func>>

\* app.py lines 22-34: the handler reads the request and constructs the solver
construct(req) ==
    /\ pc = "idle"
    /\ LET made == PDESolver_init(req[1], req[2], req[3]) IN
        /\ equation_str' = req[1]
        /\ domain' = req[2]
        /\ ic_str' = req[3]
        /\ order' = made.order
        /\ rhs_sympy' = made.rhs_sympy
        /\ ic_func' = made.ic_func
        /\ raised' = made.raised
        /\ pc' = IF made.raised = NoError THEN "constructed" ELSE "error"
    /\ UNCHANGED <<solver_locals, hist>>

\* num_frames of line 191
num_frames == 50

\* solve() lines 124-184: geometry, constraints, data, network, training.
\* The initial condition is first evaluated here; an exception of
\* _initial_condition leaves solve().  The geometry classes are outside the
\* repository: with a time domain [0, t_max], t_max <= 0, they may or may not
\* raise.  Training ends with some network.
solve_train ==
    /\ pc = "constructed"
    /\ LET exc == initial_condition(ic_func[1], order) IN
        \/ /\ exc # ""
           /\ raised' = [cls |-> exc, msg |-> "", at |-> "solve"]
           /\ pc' = "error"
           /\ UNCHANGED <<data, model>>
        \/ /\ exc = ""
           /\ domain.t_max <= 0
           /\ raised' = [cls |-> "LibraryError", msg |-> "", at |-> "solve"]
           /\ pc' = "error"
           /\ UNCHANGED <<data, model>>
        \/ /\ exc = ""
           /\ data' = [pde |-> [s \in Samples |-> pde_residual([order |-> order, rhs_sympy |-> rhs_sympy], s)],
                       constraints |-> boundary_conditions(order) \o initial_conditions(order)]
           /\ \E theta \in Thetas : model' = theta
           /\ pc' = "trained"
           /\ UNCHANGED raised
    /\ UNCHANGED <<self_fields, x_coords, y_coords, t_values, frames, result, hist>>

\* the mutant of time_labels with one label per saved step of an explicit
\* integrator: 1 + steps // save_interval labels
time_labels_by_steps ==
    LET steps == IF domain.dt > 0 THEN domain.t_max \div domain.dt ELSE 0
        save_interval == IF steps \div 50 > 1 THEN steps \div 50 ELSE 1
    IN  linspace(0, domain.t_max, 1 + steps \div save_interval)

\* lines 191-192
time_labels == linspace(0, domain.t_max, num_frames)

\* the mutant of grid_x whose length follows the training outcome
grid_x_trained == linspace(domain.x_min, domain.x_max, domain.nx + model)

\* line 187
grid_x == linspace(domain.x_min, domain.x_max, domain.nx)

\* line 188
grid_y == linspace(domain.y_min, domain.y_max, domain.ny)

\* solve() lines 186-193
solve_grid ==
    /\ pc = "trained"
    /\ x_coords' = grid_x
    /\ y_coords' = grid_y
    /\ t_values' = time_labels
    /\ frames' = <<>>
    /\ pc' = "predicting"
    /\ UNCHANGED <<self_fields, raised, data, model, result, hist>>

\* solve() lines 195-212: one pass of the loop over t_values
solve_predict ==
    /\ pc = "predicting"
    /\ Len(frames) < Len(t_values)
    /\ frames' = Append(frames,
                        predict_frame(model, order, x_coords, y_coords,
                                      t_values[Len(frames) + 1], domain.ny, domain.nx))
    /\ UNCHANGED <<pc, self_fields, raised, data, model, x_coords, y_coords, t_values, result, hist>>

\* solve() lines 214-219
solve_return ==
    /\ pc = "predicting"
    /\ Len(frames) = Len(t_values)
    /\ result' = <<[x |-> x_coords, y |-> y_coords, t |-> t_values, frames |-> frames]>>
    /\ pc' = "done"
    /\ UNCHANGED <<self_fields, raised, data, model, x_coords, y_coords, t_values, frames, hist>>

Reset ==
    /\ pc' = "idle"
    /\ equation_str' = NoEquation
    /\ domain' = NoDomain
    /\ ic_str' = NoIc
    /\ order' = 0
    /\ rhs_sympy' = <<>>
    /\ ic_func' = <<>>
    /\ raised' = NoError
    /\ data' = NoData
    /\ model' = -1
    /\ x_coords' = <<>>
    /\ y_coords' = <<>>
    /\ t_values' = <<>>
    /\ frames' = <<>>
    /\ result' = <<>>

\* app.py lines 37-40: the handler answers (success with the result, or
\* status error with the message) and the instance is dropped
respond ==
    /\ pc \in {"done", "error"}
    /\ Reset
    /\ UNCHANGED hist

\* respond, remembering a successful request for comparison with the next one
respond_recording ==
    /\ pc \in {"done", "error"}
    /\ Reset
    /\ hist' = IF pc = "done"
               THEN <<[equation_str |-> equation_str, domain |-> domain, ic_str |-> ic_str,
                       order |-> order, rhs_sympy |-> rhs_sympy, pde |-> data.pde,
                       result |-> result[1]]>>
               ELSE hist

Next ==
    \/ \E req \in Requests : construct(req)
    \/ solve_train
    \/ solve_grid
    \/ solve_predict
    \/ solve_return
    \/ respond

Spec == Init /\ [][Next]_vars

\* two requests in a row
PairDomains == {Domain(-1000, 2000, 0, 3142, 500, 2, 2, 1),
                Domain(-1000, 2000, 0, 3142, 49, 2, 1, 1),
                Domain(-1000, 2000, 0, 3142, 0, 2, 2, 1)}

PairRequests ==
    {<<e, d, i>> : e \in {EqHeat, EqHeatX, EqHeatScaled, EqWave, EqLaplace},
                   d \in PairDomains, i \in {IcSine, IcForeign}}

NextPair ==
    \/ \E req \in PairRequests : construct(req)
    \/ solve_train
    \/ solve_grid
    \/ solve_predict
    \/ solve_return
    \/ respond_recording

SpecPair == Init /\ [][NextPair]_vars

(* ------------------------------ claims --------------------------------- *)

\* the DomainSpec invariants: nx, ny >= 2, dt > 0, t_max > 0, x_max > x_min,
\* y_max > y_min
ValidDomain(d) ==
    /\ d.nx >= 2 /\ d.ny >= 2 /\ d.dt > 0 /\ d.t_max > 0
    /\ d.x_max > d.x_min /\ d.y_max > d.y_min

\* nx < 2, ny < 2, dt <= 0 or t_max <= 0
DegenerateDomain(d) == d.nx < 2 \/ d.ny < 2 \/ d.dt <= 0 \/ d.t_max <= 0

SameInputs(h) ==
    h.equation_str = equation_str /\ h.domain = domain /\ h.ic_str = ic_str

\* consecutive values of xs differ by (last - first) / (n - 1)
EvenlySpaced(xs, first, last) ==
    \A k \in 1..(Len(xs) - 1) : RatSub(xs[k + 1], xs[k]) = Rat(last - first, Len(xs) - 1)

\* the cells of the first and last row and of the first and last column
IsBoundaryCell(grid, i, j) == i = 1 \/ i = Len(grid) \/ j = 1 \/ j = Len(grid[i])

C2_FrameCountBySteps ==
    (pc = "done" /\ ValidDomain(domain)) =>
        LET steps == domain.t_max \div domain.dt
            save_interval == IF steps \div 50 > 1 THEN steps \div 50 ELSE 1
        IN  Len(result[1].frames) = 1 + steps \div save_interval

\* C2 amended: every result of solve() holds exactly 50 frames, whatever
\* t_max and dt are.
C2_FrameCountFixed == pc = "done" => Len(result[1].frames) = 50

\* C2 witness: a result for 500 steps of dt, where the stated count is 51
C2_Witness ==
    /\ pc = "done"
    /\ ValidDomain(domain)
    /\ domain.t_max \div domain.dt = 500
    /\ Len(result[1].frames) = 50

\* C3 as stated: in every frame of a result, the first included, every value
\* of the first and last row and of the first and last column is zero.
C3_BoundaryZero ==
    pc = "done" =>
        \A k \in 1..Len(result[1].frames) :
            LET grid == result[1].frames[k] IN
            \A i \in 1..Len(grid) : \A j \in 1..Len(grid[i]) :
                IsBoundaryCell(grid, i, j) => grid[i][j] = 0

\* C3 amended: the zero boundary condition is a training constraint only, a
\* zero-valued DirichletBC on the boundary for each output component of the
\* network, and every value of every frame recorded, boundary cells and the
\* first frame included, is the first output component of the trained network
\* at that grid point and time label.
C3_BoundaryIsTrainingConstraint ==
    /\ pc \in {"trained", "predicting", "done"} =>
        \A c \in (IF order = 1 THEN {0} ELSE {0, 1}) :
            \E n \in 1..Len(data.constraints) :
                data.constraints[n] =
                    [kind |-> "DirichletBC", func |-> "zeros", on |-> "on_boundary", component |-> c]
    /\ pc \in {"predicting", "done"} =>
        \A k \in 1..Len(frames) :
            \A i \in 1..Len(frames[k]) : \A j \in 1..Len(frames[k][i]) :
                frames[k][i][j] = net_output(model, order, <<x_coords[j], y_coords[i], t_values[k]>>)[1]

\* C3 witness: a result of a second-order equation on a valid domain whose
\* first frame is not zero on a boundary cell
C3_Witness ==
    /\ pc = "done"
    /\ order = 2
    /\ ValidDomain(domain)
    /\ \E j \in 1..domain.nx : result[1].frames[1][1][j] # 0

\* C4 as stated: construction on the inputs of test_heat_equation_decay
\* (equation uxx + uyy, domain [0,pi]x[0,pi], t_max 0.5, nx = ny = 20,
\* dt 0.001, initial condition sin(x)*sin(y)) succeeds with order 1.
C4_TestConstructs ==
    (pc # "idle" /\ equation_str = EqLaplace /\ domain = TestDomain /\ ic_str = IcSine) =>
        (raised = NoError /\ order = 1)

\* C5 as stated: once construction has returned an instance, solve() never
\* fails because of the initial-condition string (or the equation string).
C5_CompileErrorsAtConstruction ==
    ~(/\ pc = "error"
      /\ raised.at = "solve"
      /\ initial_condition(ic_func[1], order) # "")

\* C6 as stated: with nx < 2, ny < 2, dt <= 0 or t_max <= 0 construction
\* fails, with a domain error and not a compilation error.
C6_DomainRejected ==
    (pc # "idle" /\ DegenerateDomain(domain)) =>
        /\ pc = "error"
        /\ raised.at = "init"
        /\ raised.msg \notin {"Invalid equation string", "Invalid IC string"}

\* C6 amended: construction does not look at the domain. It raises only the
\* equation and initial-condition compilation errors, and it returns an
\* instance whenever both compile, also with nx < 2, ny < 2, dt <= 0 or
\* t_max <= 0.
C6_DomainNotValidated ==
    pc # "idle" =>
        /\ raised.at = "init" =>
                raised.msg \in {"Invalid equation string", "Invalid IC string"}
        /\ (compile_equation(equation_str).raised = NoError /\ compile_ic(ic_str).raised = NoError)
                => raised.at # "init"

\* C6 witness: solve() has returned a result on a domain with nx < 2 and dt <= 0
C6_Witness ==
    /\ pc = "done"
    /\ domain.nx < 2
    /\ domain.dt <= 0

C8_ResultShape ==
    pc = "done" =>
        LET r == result[1] IN
        /\ Len(r.t) = Len(r.frames)
        /\ r.t[1] = <<0, 1>>
        /\ r.t[Len(r.t)] = Rat(domain.t_max, 1)
        /\ EvenlySpaced(r.t, 0, domain.t_max)
        /\ \A k \in 1..Len(r.frames) :
            /\ Len(r.frames[k]) = domain.ny
            /\ \A i \in 1..domain.ny :
                /\ Len(r.frames[k][i]) = domain.nx
                /\ \A j \in 1..domain.nx :
                    r.frames[k][i][j] = net_output(model, order, <<r.x[j], r.y[i], r.t[k]>>)[1]

\* C8 witness: a result on a valid domain with nx # ny whose frames differ
\* from one label to the next
C8_Witness ==
    /\ pc = "done"
    /\ ValidDomain(domain)
    /\ domain.nx # domain.ny
    /\ result[1].frames[1] # result[1].frames[2]

\* C9: in the result for a valid domain, x has nx values from x_min to x_max
\* inclusive, evenly spaced, and y has ny values from y_min to y_max
\* inclusive, evenly spaced.
C9_GridExact ==
    (pc = "done" /\ ValidDomain(domain)) =>
        LET r == result[1] IN
        /\ Len(r.x) = domain.nx
        /\ r.x[1] = Rat(domain.x_min, 1)
        /\ r.x[domain.nx] = Rat(domain.x_max, 1)
        /\ EvenlySpaced(r.x, domain.x_min, domain.x_max)
        /\ Len(r.y) = domain.ny
        /\ r.y[1] = Rat(domain.y_min, 1)
        /\ r.y[domain.ny] = Rat(domain.y_max, 1)
        /\ EvenlySpaced(r.y, domain.y_min, domain.y_max)

\* C9 witness: a result with three x values, the middle one half-way
C9_Witness ==
    /\ pc = "done"
    /\ ValidDomain(domain)
    /\ domain.nx = 3
    /\ result[1].x = <<<<-1000, 1>>, <<500, 1>>, <<2000, 1>>>>
    /\ result[1].y[domain.ny] = <<3142, 1>>

\* C10 as stated: two instances of the same order whose solved right-hand
\* sides differ train on different residuals.
C10_RhsDrivesResidual ==
    (/\ pc \in {"trained", "predicting", "done"}
     /\ hist # <<>>
     /\ hist[1].order = order
     /\ hist[1].rhs_sympy # rhs_sympy) => hist[1].pde # data.pde

====
